---- MODULE Spec2Model ----
(***************************************************************************)
(* Model of the Frames carousel component (src/unnamed/part_000).          *)
(*                                                                         *)
(* Positions (the container's translate offset) and gesture deltas are     *)
(* kept in hundredths of a pixel, so that the 0.15 dampening factor and    *)
(* the 0.25 frame boundary are computed exactly over the integers.         *)
(* Pending animated transitions are the setTimeout callbacks created by    *)
(* moveContainerBy; every one is created with the same duration            *)
(* (getLongestDuration of the same container), so they fire in the order   *)
(* they were created: a FIFO queue.                                        *)
(***************************************************************************)
EXTENDS Integers, Sequences, FiniteSets

VARIABLES
    props,        \* the component's props (fixed after construction)
    phase,        \* "constructed" | "mounted" | "unmounted"
    activeIndex,  \* this.activeIndex
    frames,       \* this.frames: the rendered frames collected by init()
    frameSize,    \* this.frameSize (pixels)
    pos,          \* container transform offset, hundredths of a pixel
    moving,       \* the transition class is on the parent's classList
    pending,      \* FIFO queue of the setTimeout callbacks not yet fired
    gesture,      \* state of the Hammer session: "none" | "active" | "stopped"
    cb,           \* arguments onFrameUpdate was called with by the last handler
    lastOp,       \* observation: the handler that ran last and its argument
    burst         \* observation: the navigation calls issued since the component
                  \* was last idle, and what their completions reported

vars == <<props, phase, activeIndex, frames, frameSize, pos, moving, pending,
          gesture, cb, lastOp, burst>>

----------------------------------------------------------------------------
(* Bounds of the model *)

MaxFrames == 3
MaxClones == 2
MaxPending == 2
MaxEmpty == 1
WideClones == 5

(* Program constants: props.frameBoundary and props.clonesCount defaults, and *)
(* the drag dampening factor, in hundredths                                  *)

FrameBoundaryPct == 25
DampeningPct == 15
DefaultClonesCount == 2

(* Inputs *)

Sizes == {200, 300}
MoveDeltas == {-350, -75, 76, 350}
EndDeltas == {-76, -75, 74, 76}
SwipeDeltas == {-76, 76}

Min(a, b) == IF a < b THEN a ELSE b
Max(a, b) == IF a > b THEN a ELSE b
Abs(a) == IF a < 0 THEN 0 - a ELSE a

----------------------------------------------------------------------------
(* Pure helpers of the component *)

\* Children.count(props.children) counts the empty nodes (null, undefined,
\* booleans) that Children.toArray leaves out.
getClonesCount == Min(props.clonesCount, props.children + props.empty)

\* childrenArr[i]: beyond the array it is undefined, and the frame rendered
\* for it is empty
EmptyFrame == 0 - 1
childAt(i, childrenCount) ==
    IF 0 <= i /\ i < childrenCount THEN i ELSE EmptyFrame

RECURSIVE unshiftClones(_, _, _, _)
unshiftClones(withClones, i, low, childrenCount) ==
    IF i < low THEN withClones
    ELSE unshiftClones(<<childAt(i, childrenCount)>> \o withClones, i - 1, low,
                       childrenCount)

RECURSIVE pushClones(_, _, _, _)
pushClones(withClones, i, clonesCount, childrenCount) ==
    IF i >= clonesCount THEN withClones
    ELSE pushClones(Append(withClones, childAt(i, childrenCount)), i + 1,
                    clonesCount, childrenCount)

\* The rendered sequence of frames; a frame is named by the 0-based index of
\* the child it shows. childrenCount is Children.toArray(children).length.
getChildren(childrenCount, clonesCount) ==
    LET childrenArr == [k \in 1..childrenCount |-> k - 1] IN
    IF childrenCount = 0 THEN <<>>
    ELSE IF clonesCount # 0
         THEN pushClones(
                  unshiftClones(childrenArr, childrenCount - 1,
                                childrenCount - clonesCount, childrenCount),
                  0, clonesCount, childrenCount)
         ELSE childrenArr

render == getChildren(props.children, IF props.loop THEN getClonesCount ELSE 0)

\* this.frames.length
framesCount == Len(frames)

\* getNextIndex without the clamp to [0, frames.length - 1]
getNextIndex_Unclamped(s, forward) ==
    IF forward THEN s.activeIndex + 1 ELSE s.activeIndex - 1

getNextIndex(s, forward) ==
    IF forward THEN Min(s.activeIndex + 1, Len(s.frames) - 1)
    ELSE Max(s.activeIndex - 1, 0)

\* isOutOfBounds that tests the first frame only
isOutOfBounds_StartOnly(s, position) ==
    s.activeIndex = 0 /\ position >= 0

isOutOfBounds(s, position) ==
    LET last == Len(s.frames) - 1 IN
    \/ (s.activeIndex = 0 /\ position >= 0)
    \/ (s.activeIndex = last /\ position <= (0 - s.frameSize * 100) * last)

----------------------------------------------------------------------------
(* The mutable core, as a record the handlers transform *)

\* `parent` tells whether this.parent is set: React calls the ref callback with
\* null when the component unmounts.
Cur == [activeIndex |-> activeIndex, frames |-> frames,
        frameSize |-> frameSize, pos |-> pos,
        moving |-> moving, pending |-> pending, cb |-> <<>>,
        parent |-> phase # "unmounted"]

\* the guard of goToFrame without its lower bound
Rejected_NoLowerBound(s, index) ==
    Len(s.frames) = 0 \/ index > Len(s.frames)

\* the guard of goToFrame: the call returns at once
Rejected(s, index) ==
    Len(s.frames) = 0 \/ index < 0 \/ index > Len(s.frames)

RECURSIVE goToFrame(_, _, _)

\* the completion callback that tests the target against the first real index
\* only
goToFrameDone_NoUpperTest(s, index) ==
    LET clonesCount == getClonesCount
        firstRealIndex == clonesCount
        lastRealIndex == (Len(s.frames) - 1) - clonesCount
    IN  IF props.loop /\ index < firstRealIndex
        THEN LET isForward == s.activeIndex <= index
             IN  goToFrame(s, IF isForward THEN firstRealIndex ELSE lastRealIndex,
                           FALSE)
        ELSE [s EXCEPT !.activeIndex = index,
                       !.cb = Append(@, IF props.loop THEN index - clonesCount
                                        ELSE index)]

\* the completion callback goToFrame hands to moveContainerBy; the
\* framesCount it captured is the length of the same frames
goToFrameDone(s, index) ==
    LET clonesCount == getClonesCount
        firstRealIndex == clonesCount
        lastRealIndex == (Len(s.frames) - 1) - clonesCount
    IN  IF props.loop /\ (index < firstRealIndex \/ index > lastRealIndex)
        THEN LET isForward == s.activeIndex <= index
             IN  goToFrame(s, IF isForward THEN firstRealIndex ELSE lastRealIndex,
                           FALSE)
        ELSE [s EXCEPT !.activeIndex = index,
                       !.cb = Append(@, IF props.loop THEN index - clonesCount
                                        ELSE index)]

\* moveContainerBy(pixels, animate, done) where done is goToFrame's callback
\* for `index`; a pending timer is named by the index its callback captured.
\* Reading parent.classList throws a TypeError when this.parent is null: the
\* call, and the handler that made it, end there.
moveContainerBy(s, pixels, animate, index) ==
    LET moved == [s EXCEPT !.pos = pixels] IN
    IF ~s.parent THEN s
    ELSE IF animate
    THEN [moved EXCEPT !.moving = TRUE,
                       !.pending = Append(@, index)]
    ELSE goToFrameDone(moved, index)

\* moveContainerBy(pixels) that adds the transition class
moveContainerNoDone_Animated(s, pixels) ==
    IF ~s.parent THEN s ELSE [s EXCEPT !.pos = pixels, !.moving = TRUE]

\* moveContainerBy(pixels) without animation and without callback
moveContainerNoDone(s, pixels) ==
    IF ~s.parent THEN s ELSE [s EXCEPT !.pos = pixels]

goToFrame(s, index, animate) ==
    IF Rejected(s, index) THEN s
    ELSE moveContainerBy(s, (0 - index) * s.frameSize * 100, animate, index)

\* next() that steps on from the target of the newest pending transition
next_FromPending(s) ==
    IF s.pending = <<>> THEN goToFrame(s, getNextIndex(s, TRUE), TRUE)
    ELSE goToFrame(s, Min(s.pending[Len(s.pending)] + 1, Len(s.frames) - 1), TRUE)

next(s) == goToFrame(s, getNextIndex(s, TRUE), TRUE)
prev(s) == goToFrame(s, getNextIndex(s, FALSE), TRUE)

\* arguments of goTo: every public index, and beyond both ends as far as the
\* first one goToFrame rejects
GoToArgs ==
    LET c == IF props.loop THEN getClonesCount ELSE 0
    IN  (0 - c - 1) .. (props.children + c + 1)

toInternal(index) == IF props.loop THEN index + getClonesCount ELSE index

\* goTo without the public-to-internal compensation
goTo_Uncompensated(s, index) == goToFrame(s, index, TRUE)

goTo(s, index) == goToFrame(s, toInternal(index), TRUE)

\* init() that re-settles on the first frame instead of the active one
init_FirstFrame(s, measured) ==
    goToFrame([s EXCEPT !.frames = render, !.frameSize = measured], 0, FALSE)

\* init(): collects the rendered frames; setSizes() returns the measured size
\* of the parent
init(s, measured) ==
    goToFrame([s EXCEPT !.frames = render, !.frameSize = measured],
              s.activeIndex, FALSE)

\* the setTimeout callback of moveContainerBy
timerFired(s) ==
    LET t == Head(s.pending) IN
    goToFrameDone([s EXCEPT !.moving = FALSE, !.pending = Tail(@)], t)

Apply(s) ==
    /\ activeIndex' = s.activeIndex
    /\ frames' = s.frames
    /\ frameSize' = s.frameSize
    /\ pos' = s.pos
    /\ moving' = s.moving
    /\ pending' = s.pending
    /\ cb' = s.cb

\* Observation of overlapping navigation calls. A burst starts with a call of
\* next, prev or goTo that is accepted while no timer is pending; every further
\* accepted call before the first completion joins it; then the completions are
\* delivered, each adding what it passed to onFrameUpdate; the burst is done
\* when no timer is left. Any other handler, or a rejected call, ends the
\* observation. `from` is activeIndex when the burst started.
NoBurst == [from |-> 0, calls |-> <<>>, cbs |-> <<>>, done |-> FALSE]

BurstCall(call, s) ==
    IF Len(s.pending) = Len(pending) THEN NoBurst
    ELSE IF pending = <<>>
    THEN [from |-> activeIndex, calls |-> <<call>>, cbs |-> <<>>, done |-> FALSE]
    ELSE IF burst.calls # <<>> /\ ~burst.done /\ Len(burst.calls) = Len(pending)
    THEN [burst EXCEPT !.calls = Append(@, call)]
    ELSE NoBurst

BurstComplete(s) ==
    IF burst.calls # <<>> /\ ~burst.done
    THEN [burst EXCEPT !.cbs = @ \o s.cb, !.done = (s.pending = <<>>)]
    ELSE NoBurst

\* at most MaxPending timers are outstanding
Fits(s) == Len(s.pending) <= MaxPending

----------------------------------------------------------------------------
(* Initial state: the state after the constructor *)

\* props.children is the number of children that are rendered (elements),
\* props.empty the number of empty nodes among the children. props.startFrame
\* is read by the constructor alone and is an input of Init. Without loop the
\* value of clonesCount is never used and keeps its default. The empty nodes
\* are read by getClonesCount alone, where they matter only with loop and
\* clonesCount above the number of rendered children.
Props ==
    { p \in [loop : BOOLEAN, clonesCount : 0..MaxClones, children : 0..MaxFrames,
             empty : 0..MaxEmpty, draggable : BOOLEAN, swipeable : BOOLEAN] :
        /\ ~p.loop => p.clonesCount = DefaultClonesCount
        /\ p.empty > 0 => (p.loop /\ p.clonesCount > p.children) }

\* valid start frames; the default 0 when there are no children
StartFrames(p) == 0 .. (Max(p.children, 1) - 1)

Init ==
    /\ props \in Props
    /\ phase = "constructed"
    /\ activeIndex \in StartFrames(props)
    /\ frames = <<>>
    /\ frameSize = 0
    /\ pos = 0
    /\ moving = FALSE
    /\ pending = <<>>
    /\ gesture = "none"
    /\ cb = <<>>
    /\ lastOp = [op |-> "constructor", arg |-> activeIndex]
    /\ burst = NoBurst

----------------------------------------------------------------------------
(* Lifecycle *)

componentDidMount ==
    /\ phase = "constructed"
    /\ \E measured \in Sizes :
        LET s == init(Cur, measured)
        IN  /\ Apply(s)
            /\ lastOp' = [op |-> "mount", arg |-> activeIndex]
    /\ phase' = "mounted"
    /\ burst' = NoBurst
    /\ UNCHANGED <<props, gesture>>

componentWillUnmount ==
    /\ phase = "mounted"
    /\ phase' = "unmounted"
    /\ gesture' = "none"
    /\ cb' = <<>>
    /\ lastOp' = [op |-> "unmount", arg |-> 0]
    /\ burst' = NoBurst
    /\ UNCHANGED <<props, activeIndex, frames, frameSize, pos, moving, pending>>

\* recalculate(), onWindowChanges() and componentDidUpdate() all run init()
recalculate ==
    /\ phase = "mounted"
    /\ \E measured \in Sizes :
        LET s == init(Cur, measured)
        IN  /\ Apply(s)
            /\ lastOp' = [op |-> "recalculate", arg |-> frameSize]
    /\ burst' = NoBurst
    /\ UNCHANGED <<props, phase, gesture>>

----------------------------------------------------------------------------
(* Public navigation *)

Next_ ==
    /\ phase = "mounted"
    /\ LET s == next(Cur)
       IN  /\ Fits(s)
           /\ Apply(s)
           /\ lastOp' = [op |-> "next", arg |-> 0]
           /\ burst' = BurstCall(lastOp', s)
    /\ UNCHANGED <<props, phase, gesture>>

Prev_ ==
    /\ phase = "mounted"
    /\ LET s == prev(Cur)
       IN  /\ Fits(s)
           /\ Apply(s)
           /\ lastOp' = [op |-> "prev", arg |-> 0]
           /\ burst' = BurstCall(lastOp', s)
    /\ UNCHANGED <<props, phase, gesture>>

GoTo ==
    /\ phase = "mounted"
    /\ \E index \in GoToArgs :
        LET s == goTo(Cur, index)
        IN  /\ Fits(s)
            /\ Apply(s)
            /\ lastOp' = [op |-> "goTo", arg |-> index]
            /\ burst' = BurstCall(lastOp', s)
    /\ UNCHANGED <<props, phase, gesture>>

----------------------------------------------------------------------------
(* Pointer events *)

\* onEvents whose release test includes the boundary itself
onEvents_BoundaryInclusive(s, e) ==
    LET delta == e.delta * 100
        step == IF delta > 0 THEN prev(s) ELSE next(s)
        framePos == (0 - s.activeIndex) * s.frameSize * 100
    IN
    IF e.src = "pointercancel" THEN [s |-> s, stop |-> FALSE]
    ELSE IF e.type = "panmove"
    THEN IF Abs(delta) > s.frameSize * 100
         THEN [s |-> step, stop |-> TRUE]
         ELSE LET damped == IF isOutOfBounds(s, framePos + delta) /\ ~props.loop
                            THEN e.delta * DampeningPct ELSE delta
              IN  [s |-> moveContainerNoDone(s, framePos + damped), stop |-> FALSE]
    ELSE IF e.type = "swipe"
    THEN [s |-> step, stop |-> TRUE]
    ELSE IF e.type \in {"panend", "pancancel"}
    THEN IF Abs(delta) >= s.frameSize * FrameBoundaryPct
         THEN [s |-> step, stop |-> FALSE]
         ELSE [s |-> goToFrame(s, s.activeIndex, TRUE), stop |-> FALSE]
    ELSE [s |-> s, stop |-> FALSE]

\* onEvents(e): e.type is "panstart", "panmove" (PAN_PREV or PAN_NEXT),
\* "swipe" (SWIPE_PREV or SWIPE_NEXT), "panend" or "pancancel"; e.delta is in
\* pixels; e.src is e.srcEvent.type. The result is the new core and whether
\* hammer.stop(true) was called.
onEvents(s, e) ==
    LET delta == e.delta * 100
        step == IF delta > 0 THEN prev(s) ELSE next(s)
        framePos == (0 - s.activeIndex) * s.frameSize * 100
    IN
    IF e.src = "pointercancel" THEN [s |-> s, stop |-> FALSE]
    ELSE IF e.type = "panmove"
    THEN IF Abs(delta) > s.frameSize * 100
         THEN [s |-> step, stop |-> TRUE]
         ELSE LET damped == IF isOutOfBounds(s, framePos + delta) /\ ~props.loop
                            THEN e.delta * DampeningPct ELSE delta
              IN  [s |-> moveContainerNoDone(s, framePos + damped), stop |-> FALSE]
    ELSE IF e.type = "swipe"
    THEN [s |-> step, stop |-> TRUE]
    ELSE IF e.type \in {"panend", "pancancel"}
    THEN IF Abs(delta) > s.frameSize * FrameBoundaryPct
         THEN [s |-> step, stop |-> FALSE]
         ELSE [s |-> goToFrame(s, s.activeIndex, TRUE), stop |-> FALSE]
    ELSE [s |-> s, stop |-> FALSE]

\* A touch sequence begins. With draggable set Hammer emits panstart, which
\* onEvents has no case for.
TouchStart ==
    /\ phase = "mounted"
    /\ props.draggable \/ props.swipeable
    /\ gesture = "none"
    /\ gesture' = "active"
    /\ Apply(IF props.draggable
             THEN onEvents(Cur, [type |-> "panstart", delta |-> 0, src |-> "pointerdown"]).s
             ELSE Cur)
    /\ lastOp' = [op |-> "panstart", arg |-> 0]
    /\ burst' = NoBurst
    /\ UNCHANGED <<props, phase>>

PanMove ==
    /\ phase = "mounted"
    /\ props.draggable
    /\ gesture = "active"
    /\ \E delta \in MoveDeltas :
        LET r == onEvents(Cur, [type |-> "panmove", delta |-> delta, src |-> "pointermove"])
        IN  /\ Fits(r.s)
            /\ Apply(r.s)
            /\ gesture' = IF r.stop THEN "stopped" ELSE "active"
            /\ lastOp' = [op |-> "panmove", arg |-> delta]
    /\ burst' = NoBurst
    /\ UNCHANGED <<props, phase>>

Swipe ==
    /\ phase = "mounted"
    /\ props.swipeable
    /\ gesture = "active"
    /\ \E delta \in SwipeDeltas :
        LET r == onEvents(Cur, [type |-> "swipe", delta |-> delta, src |-> "pointerup"])
        IN  /\ Fits(r.s)
            /\ Apply(r.s)
            /\ gesture' = IF r.stop THEN "stopped" ELSE "active"
            /\ lastOp' = [op |-> "swipe", arg |-> delta]
    /\ burst' = NoBurst
    /\ UNCHANGED <<props, phase>>

\* hammer.stop(true) keeps Hammer from recognizing the inputs that follow, not
\* from finishing the dispatch of the current one: on the last input of a touch
\* sequence Hammer's pan recognizer emits the direction event (panleft,
\* panright) and then panend or pancancel for the same input, so the handler
\* that committed and stopped on the direction event is called again, with the
\* same delta.
SameDispatch == gesture = "stopped" /\ lastOp.op = "panmove"

PanEnd ==
    /\ phase = "mounted"
    /\ props.draggable
    /\ gesture = "active" \/ SameDispatch
    /\ \E delta \in (IF SameDispatch THEN {lastOp.arg} ELSE EndDeltas) :
        LET r == onEvents(Cur, [type |-> "panend", delta |-> delta, src |-> "pointerup"])
        IN  /\ Fits(r.s)
            /\ Apply(r.s)
            /\ lastOp' = [op |-> "panend", arg |-> delta]
    /\ gesture' = "none"
    /\ burst' = NoBurst
    /\ UNCHANGED <<props, phase>>

\* a pan-cancel whose source event is a pointercancel follows no commit: the
\* direction event of that input was ignored as well
PanCancel ==
    /\ phase = "mounted"
    /\ props.draggable
    /\ gesture = "active" \/ SameDispatch
    /\ \E delta \in (IF SameDispatch THEN {lastOp.arg} ELSE EndDeltas),
          src \in (IF SameDispatch THEN {"touchcancel"}
                   ELSE {"touchcancel", "pointercancel"}) :
        LET r == onEvents(Cur, [type |-> "pancancel", delta |-> delta, src |-> src])
        IN  /\ Fits(r.s)
            /\ Apply(r.s)
            /\ lastOp' = IF src = "pointercancel"
                         THEN [op |-> "pointercancel", arg |-> 0]
                         ELSE [op |-> "pancancel", arg |-> delta]
    /\ gesture' = "none"
    /\ burst' = NoBurst
    /\ UNCHANGED <<props, phase>>

\* The touch sequence ends without an event the component listens to: the
\* inputs after hammer.stop(true) are not recognized, or only swipes are
\* listened to and none happened.
Release ==
    /\ phase = "mounted"
    /\ gesture = "stopped" \/ (gesture = "active" /\ ~props.draggable)
    /\ gesture' = "none"
    /\ cb' = <<>>
    /\ lastOp' = [op |-> "release", arg |-> 0]
    /\ burst' = NoBurst
    /\ UNCHANGED <<props, phase, activeIndex, frames, frameSize, pos, moving, pending>>

----------------------------------------------------------------------------
\* a setTimeout callback fires; timers are not cleared on unmount. After
\* unmount a callback whose target is a real frame still finalizes, and one
\* whose target needs a seam jump throws in moveContainerBy.
Complete ==
    /\ phase \in {"mounted", "unmounted"}
    /\ pending # <<>>
    /\ LET s == timerFired(Cur)
       IN  /\ Apply(s)
           /\ lastOp' = [op |-> "complete", arg |-> Head(pending)]
           /\ burst' = BurstComplete(s)
    /\ UNCHANGED <<props, phase, gesture>>

Next ==
    \/ componentDidMount
    \/ componentWillUnmount
    \/ recalculate
    \/ Next_
    \/ Prev_
    \/ GoTo
    \/ TouchStart
    \/ PanMove
    \/ Swipe
    \/ PanEnd
    \/ PanCancel
    \/ Release
    \/ Complete

Spec == Init /\ [][Next]_vars

\* the component without loop
InitNoLoop == Init /\ ~props.loop
SpecNoLoop == InitNoLoop /\ [][Next]_vars

\* Layout alone, for clonesCount up to WideClones: the component is mounted,
\* re-laid out and unmounted, with no navigation and no pointer events.
PropsWide ==
    { p \in [loop : BOOLEAN, clonesCount : 0..WideClones, children : 0..MaxFrames,
             empty : 0..MaxEmpty, draggable : {FALSE}, swipeable : {FALSE}] :
        /\ ~p.loop => p.clonesCount = DefaultClonesCount
        /\ p.empty > 0 => p.loop }

InitRender ==
    /\ props \in PropsWide
    /\ phase = "constructed"
    /\ activeIndex \in StartFrames(props)
    /\ frames = <<>>
    /\ frameSize = 0
    /\ pos = 0
    /\ moving = FALSE
    /\ pending = <<>>
    /\ gesture = "none"
    /\ cb = <<>>
    /\ lastOp = [op |-> "constructor", arg |-> activeIndex]
    /\ burst = NoBurst

NextRender ==
    \/ componentDidMount
    \/ recalculate
    \/ componentWillUnmount

SpecRender == InitRender /\ [][NextRender]_vars

----------------------------------------------------------------------------
(* Properties *)

\* The documented number of clones on each side of the real frames,
\* min(clonesCount, realFrameCount), stated apart from the code's own
\* arithmetic.
effectiveClones ==
    IF props.loop
    THEN (IF props.clonesCount < props.children THEN props.clonesCount
          ELSE props.children)
    ELSE 0
ValidPublic == 0 .. (props.children - 1)
\* The number of frames that are laid out before the real ones; the
\* documented mapping is internal = public + clonesPrefix with loop. In the
\* claims below effectiveClones is read as this number.
clonesPrefix == IF props.loop THEN (framesCount - props.children) \div 2 ELSE 0
SettledPos == (0 - activeIndex) * frameSize * 100

TwoGoTos ==
    /\ Len(burst.calls) = 2
    /\ burst.calls[1].op = "goTo"
    /\ burst.calls[2].op = "goTo"

\* C1: when goTo(b) is called while the transition of an earlier goTo(a) is
\* pending (a, b valid public indices, a # b), onFrameUpdate is invoked exactly
\* once for the two calls, with b, and never with the superseded a. The code
\* never cancels a timer, so the first completion reports a.
C1_SupersededNotReported ==
    (/\ burst.done
     /\ TwoGoTos
     /\ burst.calls[1].arg \in ValidPublic
     /\ burst.calls[2].arg \in ValidPublic
     /\ burst.calls[1].arg # burst.calls[2].arg)
    => burst.cbs = <<burst.calls[2].arg>>

\* C2: when goTo(b) is called while the transition of an earlier goTo(a) is
\* pending, then after both completions activeIndex is the internal index of b
\* and the container rests at -activeIndex * frameSize, also when a's target
\* is a clone (a frame of the padded sequence outside the real ones). The
\* stale completion of a clone target seam-jumps and moves the container away
\* from b.
C2_SettlesOnSecondCall ==
    (/\ burst.done
     /\ TwoGoTos
     /\ 0 <= burst.calls[1].arg + clonesPrefix
     /\ burst.calls[1].arg + clonesPrefix <= framesCount - 1
     /\ burst.calls[2].arg \in ValidPublic)
    => /\ activeIndex = burst.calls[2].arg + clonesPrefix
       /\ pos = SettledPos

\* C3: after componentWillUnmount no completion takes effect: activeIndex does
\* not change and onFrameUpdate is not invoked. The timers are not cleared on
\* unmount.
C3_NothingAfterUnmount ==
    [][phase = "unmounted" => (activeIndex' = activeIndex /\ cb' = <<>>)]_vars

\* C4: for a valid startFrame s, after the initial layout and settle on mount
\* the component is settled on the internal index of s (s + effectiveClones
\* with loop) and the public index reported is s. The constructor stores
\* startFrame without compensation.
C4_StartFrameCompensated ==
    (lastOp.op = "mount" /\ framesCount > 0)
    => /\ activeIndex = lastOp.arg + clonesPrefix
       /\ cb = <<lastOp.arg>>

\* C5: with at least one frame and a valid startFrame, 0 <= activeIndex <
\* framesCount (the length of the padded sequence) in every reachable state.
\* goToFrame accepts index = framesCount.
C5_ActiveIndexInRange ==
    props.children >= 1
    => (0 <= activeIndex /\ activeIndex < props.children + 2 * effectiveClones)

\* C6: recalculate() (or a resize) while no transition is pending, after the
\* initial settle, leaves the active index, and so the public index it reports,
\* unchanged, and starts no transition; the container is re-settled at the
\* active index for the new frame size.
C6_RecalculateKeepsIndex ==
    [][(phase = "mounted" /\ pending = <<>> /\ lastOp'.op = "recalculate")
       => /\ activeIndex' = activeIndex
          /\ pending' = <<>>
          /\ moving' = moving
          /\ gesture' = gesture
          /\ \A i \in 1..Len(cb') : cb'[i] = activeIndex - clonesPrefix
          /\ (framesCount > 0 => pos' = (0 - activeIndex) * frameSize' * 100)]_vars

C6_Witness ==
    /\ lastOp.op = "recalculate"
    /\ lastOp.arg # frameSize
    /\ pending = <<>>
    /\ props.loop
    /\ activeIndex = 3
    /\ cb = <<1>>
    /\ pos = SettledPos

C8_RejectedSilently ==
    [][(/\ phase = "mounted"
        /\ lastOp'.op \in {"next", "prev", "goTo"}
        /\ LET last == framesCount - 1
               target ==
                   IF lastOp'.op = "goTo" THEN lastOp'.arg + clonesPrefix
                   ELSE IF lastOp'.op = "next"
                   THEN (IF activeIndex + 1 < last THEN activeIndex + 1 ELSE last)
                   ELSE (IF activeIndex - 1 > 0 THEN activeIndex - 1 ELSE 0)
           IN  framesCount = 0 \/ target < 0 \/ target > framesCount)
       => /\ pos' = pos
          /\ activeIndex' = activeIndex
          /\ frameSize' = frameSize
          /\ pending' = pending
          /\ moving' = moving
          /\ cb' = <<>>]_vars

C8_Witness ==
    /\ lastOp = [op |-> "goTo", arg |-> 0 - 1]
    /\ ~props.loop
    /\ props.children = 3
    /\ pending = <<2>>
    /\ activeIndex = 1
    /\ pos = (0 - 2) * frameSize * 100

\* C9: without loop, next() and prev() issued from a settled index in
\* [0, framesCount-1] and allowed to complete settle inside [0, framesCount-1];
\* next() at the last frame and prev() at index 0 leave the active index
\* unchanged.
C9_ClampWithoutLoop ==
    (/\ ~props.loop
     /\ burst.done
     /\ Len(burst.calls) = 1
     /\ burst.calls[1].op \in {"next", "prev"}
     /\ 0 <= burst.from
     /\ burst.from <= framesCount - 1)
    => /\ 0 <= activeIndex
       /\ activeIndex <= framesCount - 1
       /\ (burst.calls[1].op = "next" /\ burst.from = framesCount - 1
           => activeIndex = burst.from)
       /\ (burst.calls[1].op = "prev" /\ burst.from = 0 => activeIndex = 0)

C9_Witness ==
    /\ ~props.loop
    /\ burst.done
    /\ burst.calls = <<[op |-> "next", arg |-> 0]>>
    /\ props.children = 3
    /\ burst.from = 2
    /\ activeIndex = 2

\* C10: after the initial layout, with frames, whenever no transition is
\* pending and no drag is in progress the container rests at
\* -activeIndex * frameSize. A completion delivered after a recalculate, or
\* after a later commit it should have been superseded by, leaves the container
\* elsewhere.
C10_IdleConsistency ==
    (phase = "mounted" /\ framesCount > 0 /\ pending = <<>> /\ gesture # "active")
    => pos = SettledPos

\* loop with 3 real frames and clonesCount = 2
Loop3x2 == props.loop /\ props.children = 3 /\ props.clonesCount = 2

\* C11: with loop, 3 real frames and clonesCount = 2 the internal sequence has
\* length 7; a transition that completes on internal index 0 is not finalized
\* there but seam-jumps unanimated to internal index 2 (first), and one that
\* completes on internal index 6 seam-jumps unanimated to internal index 4
\* (last). The code tests the direction: a completion below the settled index
\* wraps to the last real frame, one above it to the first.
C11_SeamJumpTargets ==
    [][(Loop3x2 /\ lastOp'.op = "complete")
       => /\ framesCount = 7
          /\ (lastOp'.arg = 0
              => /\ activeIndex' = 2
                 /\ pos' = (0 - 2) * frameSize * 100
                 /\ pending' = Tail(pending))
          /\ (lastOp'.arg = 6
              => /\ activeIndex' = 4
                 /\ pos' = (0 - 4) * frameSize * 100
                 /\ pending' = Tail(pending))]_vars

\* C12: every seam jump lands on the real frame that corresponds to the clone
\* it leaves: when a transition completes on a clone at internal index c and
\* goToFrame re-invokes itself unanimated at r, the frame rendered at r shows
\* the same child as the clone at c, i.e. r - effectiveClones is
\* (c - effectiveClones) mod realFrameCount. A clone further than one step
\* from the real frames is left for the first or last real frame all the same.
C12_SeamJumpSameFrame ==
    [][(/\ props.loop
        /\ phase = "mounted"
        /\ lastOp'.op = "complete"
        /\ 0 <= lastOp'.arg
        /\ lastOp'.arg <= framesCount - 1
        /\ (\/ lastOp'.arg < clonesPrefix
            \/ lastOp'.arg > framesCount - 1 - clonesPrefix)
        /\ frames[lastOp'.arg + 1] \in ValidPublic)
       => /\ frames[activeIndex' + 1] = frames[lastOp'.arg + 1]
          /\ activeIndex' - clonesPrefix
               = (lastOp'.arg - clonesPrefix) % props.children]_vars

\* C13: a pan-cancel never leaves the container in a live-drag-offset
\* position: whatever the source event, the gesture resolves to a one-step
\* commit or a snap-back, so the container is at -k * frameSize for an internal
\* index k. A pan-cancel whose source event is a pointercancel is ignored and
\* the drag offset stays.
C13_CancelResolves ==
    (/\ phase = "mounted"
     /\ framesCount > 0
     /\ lastOp.op \in {"pancancel", "pointercancel"})
    => \E k \in 0..framesCount : pos = (0 - k) * frameSize * 100

\* C14: on pan-end or pan-cancel (not from a pointercancel) the decision
\* depends only on abs(delta) against frameSize * 0.25: above it, a one-step
\* move is committed in the delta's direction (delta > 0: prev, delta < 0:
\* next); otherwise an animated snap-back to the unchanged active index is
\* issued. With frameSize = 300, abs(delta) = 74 and 75 snap back and 76
\* commits.
C14_ReleaseDecision ==
    [][lastOp'.op \in {"panend", "pancancel"}
       => LET d == lastOp'.arg
              last == framesCount - 1
              target ==
                  IF Abs(d) * 4 > frameSize
                  THEN (IF d > 0
                        THEN (IF activeIndex - 1 > 0 THEN activeIndex - 1 ELSE 0)
                        ELSE (IF activeIndex + 1 < last THEN activeIndex + 1
                              ELSE last))
                  ELSE activeIndex
          IN  /\ activeIndex' = activeIndex
              /\ cb' = <<>>
              /\ gesture' = "none"
              /\ IF framesCount = 0
                 THEN pos' = pos /\ pending' = pending /\ moving' = moving
                 ELSE /\ pos' = (0 - target) * frameSize * 100
                      /\ pending' = Append(pending, target)
                      /\ moving']_vars

C14_Witness ==
    /\ frameSize = 300
    /\ lastOp = [op |-> "pancancel", arg |-> 0 - 75]
    /\ ~props.loop
    /\ props.children = 3
    /\ activeIndex = 1
    /\ pending = <<1>>
    /\ pos = SettledPos
    /\ moving

\* C15: a pan-move with abs(delta) > frameSize commits exactly one one-step
\* move in the delta's direction instead of repositioning the container live,
\* and halts the gesture; so does a swipe. No later event of the halted touch
\* sequence repositions the container or commits a move. The pan-end that
\* Hammer emits for the same input after the committing direction event
\* commits once more.
C15_CommitHaltsGesture ==
    [][/\ ((lastOp'.op = "panmove" /\ Abs(lastOp'.arg) > frameSize)
            \/ lastOp'.op = "swipe")
          => LET last == framesCount - 1
                 target ==
                     IF lastOp'.arg > 0
                     THEN (IF activeIndex - 1 > 0 THEN activeIndex - 1 ELSE 0)
                     ELSE (IF activeIndex + 1 < last THEN activeIndex + 1
                           ELSE last)
             IN  /\ gesture' = "stopped"
                 /\ activeIndex' = activeIndex
                 /\ cb' = <<>>
                 /\ IF framesCount = 0
                    THEN pos' = pos /\ pending' = pending
                    ELSE /\ pos' = (0 - target) * frameSize * 100
                         /\ pending' = Append(pending, target)
       /\ (gesture = "stopped"
           /\ lastOp'.op \in {"panstart", "panmove", "swipe", "panend",
                               "pancancel", "pointercancel", "release"})
          => /\ pos' = pos
             /\ pending' = pending
             /\ activeIndex' = activeIndex
             /\ cb' = <<>>]_vars

\* C16: a live-drag pan-move (abs(delta) <= frameSize) applies the delta
\* multiplied by 0.15 exactly when loop is off and the prospective position
\* leaves the bounds of the sequence (activeIndex = 0 and framePos + delta >= 0,
\* or activeIndex = framesCount - 1 and framePos + delta <=
\* -frameSize * (framesCount - 1)); at an interior index, and always with loop,
\* the applied position is framePos + delta.
C16_Dampening ==
    [][(lastOp'.op = "panmove" /\ Abs(lastOp'.arg) <= frameSize)
       => LET d == lastOp'.arg * 100
              framePos == (0 - activeIndex) * frameSize * 100
              leaves ==
                  \/ (activeIndex = 0 /\ framePos + d >= 0)
                  \/ (/\ activeIndex = framesCount - 1
                      /\ framePos + d <= (0 - frameSize) * 100 * (framesCount - 1))
          IN  pos' = framePos + (IF ~props.loop /\ leaves THEN (d * 15) \div 100
                                 ELSE d)]_vars

C16_Witness ==
    /\ lastOp = [op |-> "panmove", arg |-> 0 - 75]
    /\ ~props.loop
    /\ props.children = 3
    /\ activeIndex = 2
    /\ frameSize = 300
    /\ pos = (0 - 60000) - 1125

\* C17: a live-drag step (pan-move with abs(delta) <= frameSize) changes only
\* the container position: activeIndex and frameSize stay, no transition is
\* started and onFrameUpdate is not invoked.
C17_LiveDragOnlyMoves ==
    [][(lastOp'.op = "panmove" /\ Abs(lastOp'.arg) <= frameSize)
       => /\ activeIndex' = activeIndex
          /\ frameSize' = frameSize
          /\ frames' = frames
          /\ pending' = pending
          /\ moving' = moving
          /\ gesture' = gesture
          /\ cb' = <<>>]_vars

C17_Witness ==
    /\ lastOp = [op |-> "panmove", arg |-> 76]
    /\ gesture = "active"
    /\ props.loop
    /\ activeIndex = 3
    /\ pos = SettledPos + 7600
    /\ pending = <<>>
    /\ ~moving

\* C18: the number of clones rendered before and after the real frames is
\* equal and is min(clonesCount, realFrameCount) with loop and 0 without, so
\* the padded sequence has realFrameCount + 2 * min(clonesCount, realFrameCount)
\* frames with loop and realFrameCount without (clonesCount = 5 and 3 real
\* frames: 3 clones per side); with 0 real frames nothing is rendered. The
\* code caps clonesCount at Children.count, which counts empty nodes that are
\* not rendered.
C18_ClonesPerSide ==
    phase # "constructed"
    => LET n == props.children
           c == IF props.loop
                THEN (IF props.clonesCount < n THEN props.clonesCount ELSE n)
                ELSE 0
       IN  /\ Len(frames) = n + 2 * c
           /\ \A k \in 1..n : frames[c + k] = k - 1
           /\ (n = 0 => frames = <<>>)

\* C19: the seam-jump re-invocation terminates: the completion of an accepted
\* target performs at most one seam jump, the re-invoked goToFrame (first or
\* last, unanimated) lands inside [first, last] and finalizes, so a completion
\* finalizes with exactly one assignment of activeIndex, reported once. A
\* completion delivered after unmount whose target is a clone throws in the
\* re-invoked goToFrame and is never finalized.
C19_OneFinalization ==
    [][/\ lastOp'.op = "complete"
          => LET c == lastOp'.arg
                 first == clonesPrefix
                 last == framesCount - 1 - clonesPrefix
                 clone == props.loop /\ (c < first \/ c > last)
             IN  /\ first <= last
                 /\ pending' = Tail(pending)
                 /\ Len(cb') = 1
                 /\ activeIndex' = cb'[1] + clonesPrefix
                 /\ (~clone => activeIndex' = c /\ pos' = pos)
                 /\ (clone => /\ activeIndex' \in {first, last}
                              /\ pos' = (0 - activeIndex') * frameSize * 100)
       /\ (lastOp'.op \in {"mount", "recalculate"} /\ Len(frames') > 0)
          => /\ Len(cb') = 1
             /\ activeIndex' = cb'[1]
                  + (IF props.loop THEN (Len(frames') - props.children) \div 2
                     ELSE 0)]_vars

\* C20: with loop and at least one real frame, after the initial settle the
\* active index is never a clone: effectiveClones <= activeIndex <=
\* framesCount - 1 - effectiveClones in every reachable state, and every value
\* passed to onFrameUpdate is in [0, realFrameCount - 1], whatever the order
\* of next, prev, goTo (any integer), recalculate, gestures and completions.
C20_NeverOnClone ==
    (props.loop /\ props.children >= 1 /\ phase # "constructed")
    => /\ clonesPrefix <= activeIndex
       /\ activeIndex <= framesCount - 1 - clonesPrefix
       /\ \A i \in 1..Len(cb) : cb[i] \in ValidPublic

C20_Witness ==
    /\ props.loop
    /\ props.children = 2
    /\ props.clonesCount = 1
    /\ lastOp = [op |-> "complete", arg |-> 4]
    /\ framesCount = 4
    /\ activeIndex = 1
    /\ cb = <<0>>

\* the calls of the observed burst are all `op`
BurstOf(op) ==
    /\ burst.calls # <<>>
    /\ \A i \in 1..Len(burst.calls) : burst.calls[i].op = op

\* C21: next() and prev() compute their target from the settled activeIndex,
\* not from the target of a pending transition: k >= 1 calls of next() issued
\* before any completion is delivered all target the same index, one step
\* from the settled one, and once all completions are delivered the active
\* index has advanced by at most one step (one frame further round the loop
\* when the step left the real frames); likewise for prev().
C21_StepFromSettled ==
    LET last == framesCount - 1
        n == props.children
        fwd == IF burst.from + 1 < last THEN burst.from + 1 ELSE last
        bwd == IF burst.from - 1 > 0 THEN burst.from - 1 ELSE 0
    IN  /\ (BurstOf("next") /\ ~burst.done /\ burst.cbs = <<>>)
           => /\ activeIndex = burst.from
              /\ Len(pending) = Len(burst.calls)
              /\ \A i \in 1..Len(pending) : pending[i] = fwd
        /\ (BurstOf("prev") /\ ~burst.done /\ burst.cbs = <<>>)
           => /\ activeIndex = burst.from
              /\ Len(pending) = Len(burst.calls)
              /\ \A i \in 1..Len(pending) : pending[i] = bwd
        /\ (BurstOf("next") /\ burst.done)
           => /\ Len(burst.cbs) = Len(burst.calls)
              /\ IF props.loop
                 THEN (activeIndex - burst.from) % n \in {0, 1 % n}
                 ELSE activeIndex = fwd /\ activeIndex - burst.from <= 1
        /\ (BurstOf("prev") /\ burst.done)
           => /\ Len(burst.cbs) = Len(burst.calls)
              /\ IF props.loop
                 THEN (burst.from - activeIndex) % n \in {0, 1 % n}
                 ELSE activeIndex = bwd /\ burst.from - activeIndex <= 1

C21_Witness ==
    /\ burst.done
    /\ burst.calls = <<[op |-> "next", arg |-> 0], [op |-> "next", arg |-> 0]>>
    /\ ~props.loop
    /\ props.children = 3
    /\ burst.from = 0
    /\ activeIndex = 1
    /\ burst.cbs = <<1, 1>>
    /\ pending = <<>>

====
